---- MODULE Spec2Model ----
(***************************************************************************)
(* Model of the derive(Constitution) procedural macro (src/src/lib.rs)     *)
(* and of the code it generates: enforce_law, invariant_expressions,       *)
(* compute_data_hash, get_field_value and verify_with_context.             *)
(*                                                                         *)
(* Text is a sequence of one-character-like units: a token ("self.a",      *)
(* ">", "10") or a blank (" ").  Integers are unbounded mathematical       *)
(* values kept as sign and base-256 magnitude, because 64- and 128-bit     *)
(* values do not fit the model checker's machine integers.                 *)
(***************************************************************************)
EXTENDS Integers, Sequences, FiniteSets, TLC

VARIABLES decl, gen, self, lastLaw, ret

vars == <<decl, gen, self, lastLaw, ret>>

\* Bounds of the model.
MaxFields == 2
MaxAttrs == 2

None == [kind |-> "none"]

\* ret before any call of the generated code.
NoCall == [op |-> "none"]

----------------------------------------------------------------------------
\* Unbounded integers: [neg, mag], mag the little-endian base-256 digits
\* without leading (most significant) zeros; zero is [FALSE, << >>].

RECURSIVE Strip(_)
Strip(digits) ==
    IF digits = << >> THEN << >>
    ELSE IF digits[Len(digits)] = 0 THEN Strip(SubSeq(digits, 1, Len(digits) - 1))
    ELSE digits

Num(neg, digits) ==
    LET m == Strip(digits) IN [neg |-> (neg /\ m # << >>), mag |-> m]

\* Zero-extend or truncate a digit string to exactly w bytes.
Resize(digits, w) ==
    [i \in 1..w |-> IF i <= Len(digits) THEN digits[i] ELSE 0]

\* Two's complement negation of a w-byte string: invert and add one.
RECURSIVE AddOne(_, _)
AddOne(bytes, i) ==
    IF i > Len(bytes) THEN bytes
    ELSE IF bytes[i] = 255 THEN AddOne([bytes EXCEPT ![i] = 0], i + 1)
    ELSE [bytes EXCEPT ![i] = bytes[i] + 1]

Negate(bytes) == AddOne([i \in 1..Len(bytes) |-> 255 - bytes[i]], 1)

\* The w-byte little-endian two's complement pattern of n modulo 2^(8w).
WrapBytes(n, w) ==
    IF n.neg THEN Negate(Resize(n.mag, w)) ELSE Resize(n.mag, w)

\* The value a w-byte pattern denotes, as a signed or an unsigned integer.
FromBytes(bytes, signed) ==
    IF signed /\ Len(bytes) > 0 /\ bytes[Len(bytes)] >= 128
    THEN Num(TRUE, Negate(bytes))
    ELSE Num(FALSE, bytes)

RECURSIVE MagLess(_, _, _)
MagLess(a, b, i) ==
    IF i = 0 THEN FALSE
    ELSE IF a[i] # b[i] THEN a[i] < b[i]
    ELSE MagLess(a, b, i - 1)

NumLess(x, y) ==
    LET lt(a, b) == IF Len(a) # Len(b) THEN Len(a) < Len(b)
                    ELSE MagLess(a, b, Len(a))
    IN  IF x.neg # y.neg THEN x.neg
        ELSE IF x.neg THEN lt(y.mag, x.mag)
        ELSE lt(x.mag, y.mag)

\* Small non-negative integer as an unbounded integer.
Lit(n) == Num(FALSE, <<n>>)

\* 2^64 * hi + lo and 2^63, for small hi and lo.
Wide(hi, lo) == Num(FALSE, <<lo, 0, 0, 0, 0, 0, 0, 0, hi>>)

Pow63 == Num(FALSE, <<0, 0, 0, 0, 0, 0, 0, 128>>)

\* 2^64 - 1
Max64 == Num(FALSE, <<255, 255, 255, 255, 255, 255, 255, 255>>)

----------------------------------------------------------------------------
\* Types.  A declared type is [path, ident]: whether it is a Type::Path and
\* the identifier of its last path segment.

Ty(ident) == [path |-> TRUE, ident |-> ident]

IntegerIdents ==
    {"i8", "i16", "i32", "i64", "i128", "isize",
     "u8", "u16", "u32", "u64", "u128", "usize"}

is_integer_type(ty) ==
    IF ty.path THEN ty.ident \in IntegerIdents ELSE FALSE

\* First character of a type identifier.
FirstChar ==
    [i8 |-> "i", i16 |-> "i", i32 |-> "i", i64 |-> "i", i128 |-> "i", isize |-> "i",
     u8 |-> "u", u16 |-> "u", u32 |-> "u", u64 |-> "u", u128 |-> "u", usize |-> "u",
     bool |-> "b"]

\* Variant: the 128-bit and pointer-sized types forgotten.
is_unsigned_narrow(ty) ==
    IF ty.path THEN ty.ident \in {"u8", "u16", "u32", "u64"} ELSE FALSE

is_unsigned(ty) ==
    IF ty.path THEN FirstChar[ty.ident] = "u" ELSE FALSE

\* Size in bytes of the primitive integer types (64-bit target).
ByteWidth ==
    [i8 |-> 1, i16 |-> 2, i32 |-> 4, i64 |-> 8, i128 |-> 16, isize |-> 8,
     u8 |-> 1, u16 |-> 2, u32 |-> 4, u64 |-> 8, u128 |-> 16, usize |-> 8]

\* x.to_le_bytes() for a value x of integer type ident.
to_le_bytes(x, ident) == WrapBytes(x, ByteWidth[ident])

\* Variant: the cast to i64 without the signed reading of the top bit.
as_i64_unsigned(x) == FromBytes(WrapBytes(x, 8), FALSE)

\* x as i64 and x as u64: wrap to 64 bits, then read as signed or unsigned.
as_i64(x) == FromBytes(WrapBytes(x, 8), TRUE)

as_u64(x) == FromBytes(WrapBytes(x, 8), FALSE)

----------------------------------------------------------------------------
\* Text and tokens.

FieldNames == <<"a", "b", "c", "d">>

SelfTok == [a |-> "self.a", b |-> "self.b", c |-> "self.c", d |-> "self.d"]

FieldOfTok == [t \in {SelfTok[n] : n \in DOMAIN SelfTok} |->
                 CHOOSE n \in DOMAIN SelfTok : SelfTok[n] = t]

BinOps == {">", "<"}

Punct == BinOps \cup {">>>", "(", ")", ",", "matches!", " "}

IsOperand(tok) == tok \notin Punct

\* Lexing drops the blanks between tokens.
Tokenize(text) == SelectSeq(text, LAMBDA c : c # " ")

\* TokenStream::to_string(): the tokens separated by single blanks.
RECURSIVE Render(_)
Render(tokens) ==
    IF Len(tokens) <= 1 THEN tokens
    ELSE <<Head(tokens), " ">> \o Render(Tail(tokens))

IsComparison(t) ==
    Len(t) = 3 /\ IsOperand(t[1]) /\ t[2] \in BinOps /\ IsOperand(t[3])

IsMatches(t) ==
    /\ Len(t) = 6
    /\ t[1] = "matches!" /\ t[2] = "(" /\ IsOperand(t[3])
    /\ t[4] = "," /\ IsOperand(t[5]) /\ t[6] = ")"

\* syn's expression grammar on a token sequence (the forms used here).
SynExpr(t) == (Len(t) = 1 /\ IsOperand(t[1])) \/ IsComparison(t) \/ IsMatches(t)

\* praborrow_prover::parser::ExpressionParser::parse on a text: the
\* dedicated invariant grammar, comparisons only.
ExpressionParser_parse(text) == IsComparison(Tokenize(text))

----------------------------------------------------------------------------
\* The generator.  An attribute is [path, list, lit, body]: the path of the
\* attribute, whether it is a Meta::List, whether its argument is a single
\* string literal, and the argument (the tokens, or the contents of the
\* string literal).  A field is [name, ty, attrs].

\* meta_list.parse_args::<syn::Expr>(): a string literal is an expression.
parse_args(attr) == attr.lit \/ SynExpr(attr.body)

\* syn::parse_str::<syn::Expr>(s)
parse_str(s) == SynExpr(Tokenize(s))

CompileError(message, span) ==
    [kind |-> "compile_error", message |-> message, span |-> span]

\* Variant: the text of a string invariant rendered from its parsed tokens.
invariant_attr_rendered(attr, span) ==
    IF ~attr.list THEN [kind |-> "skip"]
    ELSE IF attr.path # "invariant" THEN [kind |-> "skip"]
    ELSE IF ~parse_args(attr) THEN CompileError("parse_args", span)
    ELSE IF attr.lit /\ ~parse_str(attr.body)
         THEN CompileError("Syntax error in invariant string", span)
    ELSE LET condition_tokens == IF attr.lit THEN Tokenize(attr.body) ELSE attr.body
             condition_str == Render(condition_tokens)
         IN  IF ~ExpressionParser_parse(condition_str)
             THEN CompileError("Invalid invariant syntax", span)
             ELSE [kind |-> "ok",
                   condition_str |-> condition_str,
                   condition_tokens |-> condition_tokens]

\* The body of the loop over a field's attributes for one attribute:
\* "skip", a compile error, or the accepted (condition_str, condition_tokens).
invariant_attr(attr, span) ==
    IF ~attr.list THEN [kind |-> "skip"]
    ELSE IF attr.path # "invariant" THEN [kind |-> "skip"]
    ELSE IF ~parse_args(attr) THEN CompileError("parse_args", span)
    ELSE IF attr.lit /\ ~parse_str(attr.body)
         THEN CompileError("Syntax error in invariant string", span)
    ELSE LET condition_str == IF attr.lit THEN attr.body ELSE Render(attr.body)
             condition_tokens == IF attr.lit THEN Tokenize(attr.body) ELSE attr.body
         IN  IF ~ExpressionParser_parse(condition_str)
             THEN CompileError("Invalid invariant syntax", span)
             ELSE [kind |-> "ok",
                   condition_str |-> condition_str,
                   condition_tokens |-> condition_tokens]

\* The accumulators of derive_constitution before the first field.
EmptyAcc ==
    [error |-> None, runtime_checks |-> << >>, invariant_strings |-> << >>,
     field_infos |-> << >>, all_fields |-> << >>]

\* Variant: a rejected declaration is dropped and the loop goes on.
RECURSIVE attr_loop_lenient(_, _, _, _)
attr_loop_lenient(field, i, j, acc) ==
    IF j > Len(field.attrs) THEN acc
    ELSE LET r == invariant_attr(field.attrs[j], <<i, j>>) IN
         IF r.kind # "ok" THEN attr_loop_lenient(field, i, j + 1, acc)
         ELSE attr_loop_lenient(field, i, j + 1,
                [acc EXCEPT
                   !.field_invariants = Append(@, r.condition_str),
                   !.invariant_strings = Append(@, r.condition_str),
                   !.runtime_checks =
                       Append(@, [condition_tokens |-> r.condition_tokens,
                                  condition_str |-> r.condition_str])])

\* Variant: the invariant strings collected newest first.
RECURSIVE attr_loop_prepend(_, _, _, _)
attr_loop_prepend(field, i, j, acc) ==
    IF j > Len(field.attrs) THEN acc
    ELSE LET r == invariant_attr(field.attrs[j], <<i, j>>) IN
         IF r.kind = "compile_error" THEN [acc EXCEPT !.error = r]
         ELSE IF r.kind = "skip" THEN attr_loop_prepend(field, i, j + 1, acc)
         ELSE attr_loop_prepend(field, i, j + 1,
                [acc EXCEPT
                   !.field_invariants = Append(@, r.condition_str),
                   !.invariant_strings = <<r.condition_str>> \o @,
                   !.runtime_checks =
                       Append(@, [condition_tokens |-> r.condition_tokens,
                                  condition_str |-> r.condition_str])])

\* for attr in &field.attrs, from the j-th attribute of field i on.
RECURSIVE attr_loop(_, _, _, _)
attr_loop(field, i, j, acc) ==
    IF j > Len(field.attrs) THEN acc
    ELSE LET r == invariant_attr(field.attrs[j], <<i, j>>) IN
         IF r.kind = "compile_error" THEN [acc EXCEPT !.error = r]
         ELSE IF r.kind = "skip" THEN attr_loop(field, i, j + 1, acc)
         ELSE attr_loop(field, i, j + 1,
                [acc EXCEPT
                   !.field_invariants = Append(@, r.condition_str),
                   !.invariant_strings = Append(@, r.condition_str),
                   !.runtime_checks =
                       Append(@, [condition_tokens |-> r.condition_tokens,
                                  condition_str |-> r.condition_str])])

\* for field in &fields.named, from the i-th field on.
RECURSIVE field_loop(_, _, _)
field_loop(fields, i, acc) ==
    IF i > Len(fields) THEN acc
    ELSE LET field == fields[i]
             pushed == [error |-> acc.error,
                        runtime_checks |-> acc.runtime_checks,
                        invariant_strings |-> acc.invariant_strings,
                        field_infos |-> acc.field_infos,
                        all_fields |-> Append(acc.all_fields,
                                              [name |-> field.name, ty |-> field.ty]),
                        field_invariants |-> << >>]
             after == attr_loop(field, i, 1, pushed)
         IN  IF after.error # None THEN after
             ELSE field_loop(fields, i + 1,
                    [error |-> None,
                     runtime_checks |-> after.runtime_checks,
                     invariant_strings |-> after.invariant_strings,
                     field_infos |->
                         IF after.field_invariants # << >>
                         THEN Append(after.field_infos,
                                     [name |-> field.name, ty |-> field.ty,
                                      invariants |-> after.field_invariants])
                         ELSE after.field_infos,
                     all_fields |-> after.all_fields])

\* The integer fields of all_fields, in order.
integer_fields(all_fields) ==
    SelectSeq(all_fields, LAMBDA f : is_integer_type(f.ty))

\* Variant: only the first integer field is hashed.
hash_fields_first(all_fields) ==
    LET fs == integer_fields(all_fields)
    IN  [k \in 1..(IF Len(fs) = 0 THEN 0 ELSE 1) |->
           [name |-> fs[k].name, ident |-> fs[k].ty.ident]]

hash_fields(all_fields) ==
    LET fs == integer_fields(all_fields)
    IN  [k \in 1..Len(fs) |-> [name |-> fs[k].name, ident |-> fs[k].ty.ident]]

field_match_arms(all_fields) ==
    LET fs == integer_fields(all_fields)
    IN  [k \in 1..Len(fs) |->
           [name_str |-> fs[k].name, is_unsigned |-> is_unsigned(fs[k].ty)]]

\* The macro: a compile error alone, or the two generated implementations.
derive_constitution(input) ==
    LET acc == field_loop(input, 1, EmptyAcc) IN
    IF acc.error # None THEN acc.error
    ELSE [kind |-> "expanded",
          runtime_checks |-> acc.runtime_checks,
          invariant_count |-> Len(acc.invariant_strings),
          invariant_literals |-> acc.invariant_strings,
          hash_fields |-> hash_fields(acc.all_fields),
          field_match_arms |-> field_match_arms(acc.all_fields)]

----------------------------------------------------------------------------
\* The generated code, for an expansion g and an instance inst (a function
\* from field names to values).

LitValue == [t \in {"10"} |-> Lit(10)]

OperandValue(tok, inst) ==
    IF tok \in DOMAIN FieldOfTok THEN inst[FieldOfTok[tok]] ELSE LitValue[tok]

\* The value of a condition's tokens on the instance.
EvalCondition(t, inst) ==
    IF IsMatches(t) THEN OperandValue(t[3], inst) = OperandValue(t[5], inst)
    ELSE IF t[2] = ">" THEN NumLess(OperandValue(t[3], inst), OperandValue(t[1], inst))
    ELSE NumLess(OperandValue(t[1], inst), OperandValue(t[3], inst))

Ok == [kind |-> "Ok"]

InvariantViolation(expression) ==
    [kind |-> "Err", expression |-> expression, values |-> << >>]

\* Variant: every condition is evaluated before the first failure is reported.
runtime_checks_all(checks, k, inst, evaluated) ==
    LET all == [i \in 1..Len(checks) |-> i]
        failing == {i \in 1..Len(checks) : ~EvalCondition(checks[i].condition_tokens, inst)}
    IN  IF failing = {} THEN [result |-> Ok, evaluated |-> all]
        ELSE [result |->
                  InvariantViolation(
                      checks[CHOOSE i \in failing : \A m \in failing : i <= m].condition_str),
              evaluated |-> all]

\* Variant: the test of a condition without its negation.
RECURSIVE runtime_checks_unnegated(_, _, _, _)
runtime_checks_unnegated(checks, k, inst, evaluated) ==
    IF k > Len(checks) THEN [result |-> Ok, evaluated |-> evaluated]
    ELSE IF EvalCondition(checks[k].condition_tokens, inst)
         THEN [result |-> InvariantViolation(checks[k].condition_str),
               evaluated |-> Append(evaluated, k)]
    ELSE runtime_checks_unnegated(checks, k + 1, inst, Append(evaluated, k))

\* The if-blocks of enforce_law from the k-th on; evaluated lists the
\* conditions evaluated so far.
RECURSIVE runtime_checks_from(_, _, _, _)
runtime_checks_from(checks, k, inst, evaluated) ==
    IF k > Len(checks) THEN [result |-> Ok, evaluated |-> evaluated]
    ELSE IF ~EvalCondition(checks[k].condition_tokens, inst)
         THEN [result |-> InvariantViolation(checks[k].condition_str),
               evaluated |-> Append(evaluated, k)]
    ELSE runtime_checks_from(checks, k + 1, inst, Append(evaluated, k))

enforce_law(g, inst) == runtime_checks_from(g.runtime_checks, 1, inst, << >>)

\* ConstitutionError's Display, as the runtime test reads it.
to_string(err) == <<"Invariant '">> \o err.expression \o <<"' breached">>

invariant_expressions(g) ==
    [k \in 1..g.invariant_count |-> g.invariant_literals[k]]

\* The update calls of compute_data_hash from the k-th on: the bytes fed
\* to the hasher.
RECURSIVE hasher_update(_, _, _)
hasher_update(fields, k, inst) ==
    IF k > Len(fields) THEN << >>
    ELSE to_le_bytes(inst[fields[k].name], fields[k].ident)
           \o hasher_update(fields, k + 1, inst)

\* Sha256 as an ideal hash: the digest determines the input and nothing else.
Sha256(bytes) == [sha256 |-> bytes]

compute_data_hash(g, inst) == Sha256(hasher_update(g.hash_fields, 1, inst))

\* The match of get_field_value from the k-th arm on.
RECURSIVE match_arms_from(_, _, _, _)
match_arms_from(arms, k, inst, name) ==
    IF k > Len(arms)
    THEN [kind |-> "Err", error |-> "ParseError",
          message |-> <<"Unknown field: ", name>>]
    ELSE IF arms[k].name_str = name
         THEN IF arms[k].is_unsigned
              THEN [kind |-> "Ok", tag |-> "UInt", value |-> as_u64(inst[name])]
              ELSE [kind |-> "Ok", tag |-> "Int", value |-> as_i64(inst[name])]
    ELSE match_arms_from(arms, k + 1, inst, name)

get_field_value(g, inst, name) == match_arms_from(g.field_match_arms, 1, inst, name)

\* Variant: the invariants are submitted up to the first one the instance violates.
verify_with_context_short(g, inst, outcome) ==
    LET checked == enforce_law(g, inst).evaluated IN
    [submitted |-> [provider |-> inst,
                    invariants |-> SubSeq(invariant_expressions(g), 1, Len(checked))],
     result |-> outcome]

\* verify_with_context: what it hands to ctx.verify_invariants, and what it
\* returns when that call's outcome is outcome.
verify_with_context(g, inst, outcome) ==
    [submitted |-> [provider |-> inst, invariants |-> invariant_expressions(g)],
     result |-> outcome]

----------------------------------------------------------------------------
\* Inputs: the declarations and the instances.

Attr(path, list, lit, body) ==
    [path |-> path, list |-> list, lit |-> lit, body |-> body]

\* The attributes tried on a field named n.
AttrChoices(n) ==
    { Attr("invariant", TRUE, FALSE, <<SelfTok[n], ">", "10">>),
      Attr("invariant", TRUE, TRUE, <<SelfTok[n], "<", "10">>),
      Attr("invariant", TRUE, TRUE, <<SelfTok[n], " ", ">", " ", "10">>),
      Attr("invariant", TRUE, FALSE, <<"this", "is", ">>>">>),
      Attr("invariant", TRUE, TRUE, <<SelfTok[n], " ", ">">>),
      Attr("invariant", TRUE, FALSE,
           <<"matches!", "(", SelfTok[n], ",", "10", ")">>),
      Attr("doc", TRUE, FALSE, <<"hidden">>),
      Attr("invariant", FALSE, FALSE, << >>) }

RECURSIVE AttrSeqs(_, _)
AttrSeqs(n, k) ==
    IF k = 0 THEN {<< >>}
    ELSE LET shorter == AttrSeqs(n, k - 1)
         IN  shorter \cup {Append(q, x) : q \in shorter, x \in AttrChoices(n)}

\* The field lists i..len over the types tys with at most budget attributes.
RECURSIVE FieldLists(_, _, _, _)
FieldLists(i, len, tys, budget) ==
    IF i > len THEN {<< >>}
    ELSE UNION { { <<[name |-> FieldNames[i], ty |-> ty, attrs |-> q]>> \o rest :
                     rest \in FieldLists(i + 1, len, tys, budget - Len(q)) } :
                 ty \in tys, q \in AttrSeqs(FieldNames[i], budget) }

AllTypes ==
    {Ty("i8"), Ty("u8"), Ty("i128"), Ty("u128"), Ty("bool"),
     [path |-> FALSE, ident |-> "u8"]}

\* Declarations: any attributes on i8 fields, and any types without attributes.
DeclInputs ==
    UNION { FieldLists(1, len, {Ty("i8")}, MaxAttrs) \cup FieldLists(1, len, AllTypes, 0) :
            len \in 0..MaxFields }

Minus(n) == Num(TRUE, <<n>>)

ValuesOf(ty) ==
    IF ~is_integer_type(ty) THEN {[bool |-> FALSE], [bool |-> TRUE]}
    ELSE IF ty.ident = "i8" THEN {Lit(5), Lit(15)}
    ELSE IF ty.ident = "u8" THEN {Lit(5), Lit(200)}
    ELSE IF ty.ident = "i128" THEN {Minus(1), Max64, Pow63}
    ELSE {Lit(2), Wide(1, 2)}

NameSet(fields) == {fields[i].name : i \in 1..Len(fields)}

FieldNamed(fields, n) == fields[CHOOSE i \in 1..Len(fields) : fields[i].name = n]

\* The instances of a type: a value of its type for every field.
RECURSIVE InstancesFrom(_, _)
InstancesFrom(fields, i) ==
    IF i > Len(fields) THEN {<< >>}
    ELSE {(fields[i].name :> v) @@ rest :
            v \in ValuesOf(fields[i].ty), rest \in InstancesFrom(fields, i + 1)}

Instances(fields) == InstancesFrom(fields, 1)

\* The names asked of the provider: the declared ones and one that is none.
AskedNames(fields) == NameSet(fields) \cup {"zz"}

CtxOutcomes ==
    {[kind |-> "Ok", token |-> "VerificationToken"],
     [kind |-> "Err", error |-> "ProofError"]}

----------------------------------------------------------------------------
\* The state machine.

Init ==
    /\ decl \in DeclInputs
    /\ gen = None
    /\ self = None
    /\ lastLaw = None
    /\ ret = NoCall

\* The build: the macro runs once on the declaration.
Derive ==
    /\ gen = None
    /\ gen' = derive_constitution(decl)
    /\ UNCHANGED <<decl, self, lastLaw, ret>>

\* The caller builds the instance of the compiled type.
Construct ==
    /\ gen.kind = "expanded" /\ self.kind = "none"
    /\ \E inst \in Instances(decl) : self' = [kind |-> "instance", fields |-> inst]
    /\ lastLaw' = None
    /\ ret' = NoCall
    /\ UNCHANGED <<decl, gen>>

\* Variant: a check that remembers it ran and succeeds from then on.
EnforceLawOnce ==
    /\ gen.kind = "expanded" /\ self.kind = "instance"
    /\ LET r == enforce_law(gen, self.fields) IN
         /\ ret' = [op |-> "enforce_law",
                    result |-> IF lastLaw # None THEN Ok ELSE r.result,
                    evaluated |-> r.evaluated, again |-> lastLaw # None]
         /\ lastLaw' = r.result
    /\ UNCHANGED <<decl, gen, self>>

EnforceLaw ==
    /\ gen.kind = "expanded" /\ self.kind = "instance"
    /\ LET r == enforce_law(gen, self.fields) IN
         /\ ret' = [op |-> "enforce_law", result |-> r.result,
                    evaluated |-> r.evaluated, again |-> lastLaw # None]
         /\ lastLaw' = r.result
    /\ UNCHANGED <<decl, gen, self>>

GetFieldValue ==
    /\ gen.kind = "expanded" /\ self.kind = "instance"
    /\ \E name \in AskedNames(decl) :
         ret' = [op |-> "get_field_value", name |-> name,
                 result |-> get_field_value(gen, self.fields, name)]
    /\ UNCHANGED <<decl, gen, self, lastLaw>>

ComputeDataHash ==
    /\ gen.kind = "expanded" /\ self.kind = "instance"
    /\ ret' = [op |-> "compute_data_hash", result |-> compute_data_hash(gen, self.fields)]
    /\ UNCHANGED <<decl, gen, self, lastLaw>>

VerifyWithContext ==
    /\ gen.kind = "expanded" /\ self.kind = "instance"
    /\ \E outcome \in CtxOutcomes :
         LET r == verify_with_context(gen, self.fields, outcome) IN
           ret' = [op |-> "verify_with_context", submitted |-> r.submitted,
                   outcome |-> outcome, result |-> r.result]
    /\ UNCHANGED <<decl, gen, self, lastLaw>>

Next ==
    \/ Derive
    \/ Construct
    \/ EnforceLaw
    \/ GetFieldValue
    \/ ComputeDataHash
    \/ VerifyWithContext

Spec == Init /\ [][Next]_vars

----------------------------------------------------------------------------
\* Vocabulary of the properties, read off the declaration itself.

\* Every attribute of the declaration with its place <<field, attribute>>,
\* in field order and, within a field, in attribute order.
RECURSIVE AttrsInOrder(_, _)
AttrsInOrder(fields, i) ==
    IF i > Len(fields) THEN << >>
    ELSE [j \in 1..Len(fields[i].attrs) |-> [span |-> <<i, j>>, attr |-> fields[i].attrs[j]]]
           \o AttrsInOrder(fields, i + 1)

\* The invariant declarations: #[invariant(...)] attributes.
IsDeclaration(attr) == attr.list /\ attr.path = "invariant"

Declarations(fields) ==
    SelectSeq(AttrsInOrder(fields, 1), LAMBDA e : IsDeclaration(e.attr))

\* The expression a declaration denotes, as tokens.
ExprTokens(attr) == IF attr.lit THEN Tokenize(attr.body) ELSE attr.body

\* A declaration that is no expression or that the invariant grammar rejects.
Malformed(attr) ==
    ~SynExpr(ExprTokens(attr)) \/ ~ExpressionParser_parse(attr.body)

\* The canonical text the generator gives a well-formed declaration.
CanonicalText(attr) == invariant_attr(attr, <<0, 0>>).condition_str

Holds(attr, inst) == EvalCondition(ExprTokens(attr), inst)

\* needle occurs in hay as a contiguous piece.
Contains(hay, needle) ==
    \E i \in 0..(Len(hay) - Len(needle)) :
        SubSeq(hay, i + 1, i + Len(needle)) = needle

Expanded == gen.kind = "expanded"

Called(op) == ret.op = op

\* The declarations that fail on the instance, by their place in the list.
Failing(ds) == {k \in 1..Len(ds) : ~Holds(ds[k].attr, self.fields)}

First(S) == CHOOSE k \in S : \A m \in S : k <= m

----------------------------------------------------------------------------
C3_CompileErrorOnly ==
    gen # None =>
        LET ds == Declarations(decl)
            bad == {k \in 1..Len(ds) : Malformed(ds[k].attr)}
        IN  bad # {} =>
              /\ gen.kind = "compile_error"
              /\ gen.span = ds[First(bad)].span
              /\ DOMAIN gen = {"kind", "message", "span"}

\* A malformed declaration that follows an accepted one.
C3_Witness ==
    /\ gen.kind = "compile_error"
    /\ LET ds == Declarations(decl) IN
         /\ Len(ds) = 2
         /\ ~Malformed(ds[1].attr)
         /\ Malformed(ds[2].attr)

\* C4: invariant_expressions lists the canonical text of every declaration
\* once, in field order and then attribute order; the runtime conditions
\* are as many and in the same order, and the text enforce_law reports
\* when the i-th evaluated condition fails is the i-th entry.
C4_SameListSameOrder ==
    Expanded =>
        LET ds == Declarations(decl)
            listed == invariant_expressions(gen)
        IN
        /\ listed = [k \in 1..Len(ds) |-> CanonicalText(ds[k].attr)]
        /\ Len(gen.runtime_checks) = Len(listed)
        /\ \A k \in 1..Len(listed) :
               gen.runtime_checks[k].condition_tokens = ExprTokens(ds[k].attr)
        /\ Called("enforce_law") /\ ret.result # Ok =>
               ret.result.expression = listed[Len(ret.evaluated)]

\* Two different invariants on one field, the second one violated.
C4_Witness ==
    /\ Called("enforce_law")
    /\ Len(decl) = 1 /\ Len(Declarations(decl)) = 2
    /\ invariant_expressions(gen)[1] # invariant_expressions(gen)[2]
    /\ ret.result # Ok
    /\ Len(ret.evaluated) = 2

\* C5: verify_with_context hands the proof context a provider for the
\* instance and the complete invariant list, whatever enforce_law returned
\* before (or was never called), and returns the context's outcome unchanged.
C5_CompleteListRelayed ==
    Called("verify_with_context") =>
        LET ds == Declarations(decl) IN
        /\ ret.submitted.invariants = invariant_expressions(gen)
        /\ ret.submitted.invariants = [k \in 1..Len(ds) |-> CanonicalText(ds[k].attr)]
        /\ ret.submitted.provider = self.fields
        /\ ret.result = ret.outcome

\* The runtime check found the first of two invariants violated, then the
\* proof was asked for and failed.
C5_Witness ==
    /\ Called("verify_with_context")
    /\ lastLaw.kind = "Err"
    /\ Len(ret.submitted.invariants) = 2
    /\ lastLaw.expression = ret.submitted.invariants[1]
    /\ ret.result.kind = "Err"

----------------------------------------------------------------------------
\* The declared types, as the language has them.

UnsignedTypes == {"u8", "u16", "u32", "u64", "u128", "usize"}

SignedTypes == {"i8", "i16", "i32", "i64", "i128", "isize"}

IsUnsignedField(f) == f.ty.path /\ f.ty.ident \in UnsignedTypes

IsSignedField(f) == f.ty.path /\ f.ty.ident \in SignedTypes

IsIntegerField(f) == IsUnsignedField(f) \/ IsSignedField(f)

WiderThan64(f) == f.ty.ident \in {"i128", "u128"}

Declared(n) == n \in NameSet(decl)

UnknownField(n) ==
    [kind |-> "Err", error |-> "ParseError", message |-> <<"Unknown field: ", n>>]

\* x and y agree modulo 2^64: their 128-bit patterns have the same low half.
SameLow64(x, y) ==
    SubSeq(WrapBytes(x, 16), 1, 8) = SubSeq(WrapBytes(y, 16), 1, 8)

\* x is a value of the 64-bit type with the given tag.
InRange64(x, tag) ==
    IF tag = "UInt" THEN ~x.neg /\ Len(x.mag) <= 8
    ELSE \/ Len(x.mag) < 8
         \/ Len(x.mag) = 8 /\ x.mag[8] < 128
         \/ x = Num(TRUE, <<0, 0, 0, 0, 0, 0, 0, 128>>)

\* C6 as stated: get_field_value gives UInt for an unsigned integer field
\* and Int for a signed one, carrying the field's current value, and a
\* ParseError naming the field for every other name.
C6_CarriesFieldValue ==
    Called("get_field_value") =>
        LET n == ret.name IN
        IF Declared(n) /\ IsIntegerField(FieldNamed(decl, n))
        THEN ret.result = [kind |-> "Ok",
                           tag |-> IF IsUnsignedField(FieldNamed(decl, n))
                                   THEN "UInt" ELSE "Int",
                           value |-> self.fields[n]]
        ELSE ret.result = UnknownField(n)

\* C6 amended: the value carried is the field's current value cast to 64
\* bits, which is the value itself for every field of at most 64 bits.
C6_CarriesCastValue ==
    Called("get_field_value") =>
        LET n == ret.name IN
        IF Declared(n) /\ IsIntegerField(FieldNamed(decl, n))
        THEN LET f == FieldNamed(decl, n) IN
             /\ ret.result.kind = "Ok"
             /\ ret.result.tag = IF IsUnsignedField(f) THEN "UInt" ELSE "Int"
             /\ InRange64(ret.result.value, ret.result.tag)
             /\ SameLow64(ret.result.value, self.fields[n])
             /\ ~WiderThan64(f) => ret.result.value = self.fields[n]
        ELSE ret.result = UnknownField(n)

\* A type with a signed and an unsigned field, and a type with a field that
\* is no integer, asked by name; and a name that is no field.
C6_Witness ==
    /\ Called("get_field_value")
    /\ \/ /\ Declared(ret.name) /\ ~IsIntegerField(FieldNamed(decl, ret.name))
          /\ \E m \in NameSet(decl) : IsUnsignedField(FieldNamed(decl, m))
       \/ /\ ~Declared(ret.name)
          /\ \E m \in NameSet(decl) : IsSignedField(FieldNamed(decl, m))

\* The integer fields of the declaration, in declaration order.
IntegerFieldsOf(fields) == SelectSeq(fields, IsIntegerField)

\* bytes is, field after field from the k-th on, the little-endian pattern
\* of the field's width that denotes the field's value in inst.
RECURSIVE DecodesTo(_, _, _, _)
DecodesTo(bytes, fs, k, inst) ==
    IF k > Len(fs) THEN bytes = << >>
    ELSE LET w == ByteWidth[fs[k].ty.ident] IN
         /\ Len(bytes) >= w
         /\ FromBytes(SubSeq(bytes, 1, w), IsSignedField(fs[k])) = inst[fs[k].name]
         /\ DecodesTo(SubSeq(bytes, w + 1, Len(bytes)), fs, k + 1, inst)

SameIntegerFields(x, y) ==
    \A i \in 1..Len(decl) :
        IsIntegerField(decl[i]) => x[decl[i].name] = y[decl[i].name]

\* C7: compute_data_hash digests the concatenated little-endian bytes of
\* the integer fields in declaration order: instances with the same
\* integer-field values get the same digest whatever else they hold, and
\* any change to an integer field changes the bytes hashed and the digest.
C7_HashOfIntegerFields ==
    Called("compute_data_hash") =>
        /\ DOMAIN ret.result = {"sha256"}
        /\ DecodesTo(ret.result.sha256, IntegerFieldsOf(decl), 1, self.fields)
        /\ \A other \in Instances(decl) :
               SameIntegerFields(other, self.fields)
                   <=> compute_data_hash(gen, other) = ret.result

\* A type with a 128-bit field and a field that is no integer, hashed.
C7_Witness ==
    /\ Called("compute_data_hash")
    /\ Len(decl) = 2
    /\ WiderThan64(decl[1]) /\ IsIntegerField(decl[1])
    /\ ~IsIntegerField(decl[2])
    /\ Len(ret.result.sha256) = 16

C9_StringTextIsRendered ==
    Expanded =>
        LET ds == Declarations(decl) IN
        \A k \in 1..Len(ds) :
            ds[k].attr.lit =>
                /\ invariant_expressions(gen)[k] = Render(Tokenize(ds[k].attr.body))
                /\ invariant_expressions(gen)[k]
                     = CanonicalText(Attr("invariant", TRUE, FALSE,
                                          Tokenize(ds[k].attr.body)))

\* C9 amended: the canonical text of an invariant given as a quoted string
\* is the contents of the string as written; that text passed the invariant
\* grammar, is listed by invariant_expressions and is reported in the
\* violation, and it is the text of the bare declaration of the same
\* expression only if the string is written in rendered form.
C9_StringTextIsVerbatim ==
    Expanded =>
        LET ds == Declarations(decl) IN
        \A k \in 1..Len(ds) :
            ds[k].attr.lit =>
                /\ invariant_expressions(gen)[k] = ds[k].attr.body
                /\ ExpressionParser_parse(invariant_expressions(gen)[k])
                /\ gen.runtime_checks[k].condition_tokens = Tokenize(ds[k].attr.body)
                /\ (Called("enforce_law") /\ ret.result # Ok /\ Len(ret.evaluated) = k)
                      => ret.result.expression = ds[k].attr.body
                /\ (invariant_expressions(gen)[k]
                      = CanonicalText(Attr("invariant", TRUE, FALSE,
                                           Tokenize(ds[k].attr.body))))
                   <=> (ds[k].attr.body = Render(Tokenize(ds[k].attr.body)))

\* A violation of an invariant that was given as a string without blanks.
C9_Witness ==
    /\ Called("enforce_law")
    /\ ret.result # Ok
    /\ LET a == Declarations(decl)[Len(ret.evaluated)].attr IN
         a.lit /\ a.body # Render(Tokenize(a.body))

\* C10: for an integer field get_field_value never fails.  For i128 and
\* u128 it returns the value reduced modulo 2^64, read as signed for i128
\* and as unsigned for u128, so values that differ by a multiple of 2^64
\* give the same Field Value; for narrower fields it returns the value.
C10_WideFieldsWrap ==
    (Called("get_field_value") /\ Declared(ret.name)
        /\ IsIntegerField(FieldNamed(decl, ret.name))) =>
        LET f == FieldNamed(decl, ret.name)
            x == self.fields[ret.name]
            r == ret.result
        IN
        /\ r.kind = "Ok"
        /\ IF WiderThan64(f)
           THEN /\ WrapBytes(r.value, 8) = SubSeq(WrapBytes(x, 16), 1, 8)
                /\ r.value.neg => IsSignedField(f)
                /\ Len(r.value.mag) <= 8
                /\ x = Wide(1, 2) => r.value = Lit(2)
                /\ x = Max64 /\ IsSignedField(f) => r.value = Minus(1)
                /\ x = Pow63 /\ IsSignedField(f) => r.value = Num(TRUE, Pow63.mag)
                /\ \A other \in Instances(decl) :
                       SameLow64(other[ret.name], x)
                           => get_field_value(gen, other, ret.name) = r
           ELSE r.value = x

\* A 128-bit field holding 2^64 + 2 is read as 2.
C10_Witness ==
    /\ Called("get_field_value")
    /\ Declared(ret.name)
    /\ WiderThan64(FieldNamed(decl, ret.name))
    /\ IsIntegerField(FieldNamed(decl, ret.name))
    /\ self.fields[ret.name] = Wide(1, 2)
    /\ ret.result.value = Lit(2)

====
